---- MODULE Spec2Model ----
(***************************************************************************)
(* Model of the domain classifier of cow (src/domainset.go): the four      *)
(* domain sets plus the self-expiring "chou" set, the lookup precedence,   *)
(* the learning operations addBlockedURL / addDirectURL, load and store.   *)
(***************************************************************************)
EXTENDS Integers, Sequences, FiniteSets, TLC

(***************************************************************************)
(* Bounds and constants                                                    *)
(***************************************************************************)

\* the clock runs from 0 to MaxTime, in minutes
MaxTime == 2

\* const chouTimeout = 2 * time.Minute
chouTimeout == 2

\* "no entry" mark of the time map of the TimeoutSet
NoTime == -1

\* names that the learned domain list files and the seed lists may hold
LearnedNames == {"a.com", "www.a.com"}

\* names that the always-blocked and always-direct files may hold
AlwaysNames == {"a.com", "localhost", "www.a.com"}

\* every string that can be a key of a set
AllNames == AlwaysNames \cup {"1.2.3.4", "b.com"}

\* lexicographic order of the names, as sort.StringSlice orders them
NameOrder == <<"1.2.3.4", "a.com", "b.com", "localhost", "www.a.com">>

\* the parsed request targets (type URL): full host, registered domain
\* (empty for a bare host name) and the HostIsIP predicate
URLs ==
  { [Host |-> "www.a.com", Domain |-> "a.com",   IsIP |-> FALSE],
    [Host |-> "a.com",     Domain |-> "a.com",   IsIP |-> FALSE],
    [Host |-> "localhost", Domain |-> "",        IsIP |-> FALSE],
    [Host |-> "1.2.3.4",   Domain |-> "1.2.3.4", IsIP |-> TRUE] }

NoURL == [Host |-> "", Domain |-> "", IsIP |-> FALSE]

\* the targets of the concurrent callers: two recordable domains
ConcURLs ==
  { [Host |-> "a.com", Domain |-> "a.com", IsIP |-> FALSE],
    [Host |-> "b.com", Domain |-> "b.com", IsIP |-> FALSE] }

\* the number of connection-handling goroutines that call the classifier
NumTasks == 2

Tasks == 1..NumTasks

\* the number of calls the goroutines make in all
MaxCalls == 3

\* points at which storeDomainList can fail
StoreFailures == {"none", "mkdir", "create", "rename"}

VARIABLES
  phase,           \* "new" after newDomainSet, "loaded" after load
  config,          \* [UpdateBlocked, UpdateDirect]: the fixed configuration
  direct,          \* ds.direct   (Learned-Direct)
  blocked,         \* ds.blocked  (Learned-Blocked)
  blockedChanged,  \* ds.blockedChanged
  directChanged,   \* ds.directChanged
  alwaysBlocked,   \* ds.alwaysBlocked
  alwaysDirect,    \* ds.alwaysDirect
  chouSet,         \* ds.chouSet: name -> insertion time, NoTime if absent
  now,             \* time.Now()
  blockedFile,     \* the file dsFile.blocked
  directFile,      \* the file dsFile.direct
  written,         \* the files the last operation replaced
  lastOp,          \* the last operation and its target
  ret,             \* the value the last operation returned
  errl,            \* the names the last operation logged a warning for (errl)
  spc,             \* storeDomainList: the statement the call is at
  tmpFile,         \* storeDomainList: the file tmpPath
  oldFile,         \* storeDomainList: the content of fpath when the call began
  isWindows,       \* isWindows()
  serr,            \* storeDomainList: the call met an error
  pc,              \* goroutine -> the statement its call is at, or "idle"
  top,             \* goroutine -> the function it called last
  turl,            \* goroutine -> the target of that call
  tret,            \* goroutine -> the value that call returned
  ncalls,          \* the number of calls begun
  wlock,           \* set -> the goroutine that holds its write lock, 0 if none
  winStart,        \* name -> the time of the first insertion of its live window
  ppc,             \* store(): the statement the storing goroutine is at
  pset,            \* toSlice: the set it is called on
  plen,            \* toSlice: l, the length of lst
  pseen,           \* toSlice: the keys the range loop has put in lst
  pinst,           \* toSlice: the contents the set has had since the call began
  pfix             \* store(): the names no call has worked on since it began

\* the variables of the stepwise specifications; they rest in Spec
storeVars == <<spc, tmpFile, oldFile, isWindows, serr>>

taskVars == <<pc, top, turl, tret, ncalls, wlock, winStart>>

persistVars == <<ppc, pset, plen, pseen, pinst, pfix>>

auxVars == <<storeVars, taskVars, persistVars>>

vars == <<phase, config, direct, blocked, blockedChanged, directChanged,
          alwaysBlocked, alwaysDirect, chouSet, now, blockedFile, directFile,
          written, lastOp, ret, errl, auxVars>>

\* the five sets and the two dirty flags
dsVars == <<direct, blocked, blockedChanged, directChanged,
            alwaysBlocked, alwaysDirect, chouSet>>

(***************************************************************************)
(* Files and lists                                                         *)
(***************************************************************************)

Range(s) == { s[i] : i \in 1..Len(s) }

\* sort.Sort(sort.StringSlice(lst)) applied to dmSet.toSlice()
SortedList(S) == SelectSeq(NameOrder, LAMBDA n : n \in S)

NoFile == [exists |-> FALSE, lines |-> <<>>]

FileOf(S) == [exists |-> TRUE, lines |-> SortedList(S)]

\* the learned files a run can start with: missing (first run) or written by
\* an earlier run; the seed lists of load supply every other start content
LearnedFiles == {NoFile, FileOf({"a.com"})}

\* the always files: missing, or a list

AlwaysFiles == {NoFile} \cup { FileOf(S) : S \in SUBSET AlwaysNames }

\* loadDomainList: a missing file gives no names, blank lines are skipped
loadDomainList(f) ==
  IF ~f.exists THEN {} ELSE { n \in Range(f.lines) : n # "" }

\* storeDomainList: the content of fpath after the call.  The list is written
\* to a temporary file that is renamed to fpath; on Windows an existing fpath
\* is removed before the rename.
storeDomainList(f, lst, fail, windows) ==
  CASE fail = "mkdir"  -> f
    [] fail = "create" -> f
    [] fail = "rename" -> IF windows THEN NoFile ELSE f
    [] OTHER           -> [exists |-> TRUE, lines |-> SortedList(lst)]

(***************************************************************************)
(* TimeoutSet                                                              *)
(***************************************************************************)

NewTimeoutSet == [n \in AllNames |-> NoTime]

TimeoutSetHas(s) ==
  /\ s \in DOMAIN chouSet
  /\ chouSet[s] # NoTime
  /\ now < chouSet[s] + chouTimeout

TimeoutSetAdd(s) == [chouSet EXCEPT ![s] = now]

(***************************************************************************)
(* Queries                                                                 *)
(***************************************************************************)

isURLInAlwaysDs(url) ==
  \/ url.Domain = ""
  \/ url.Host \in alwaysDirect
  \/ url.Domain \in alwaysDirect
  \/ url.Host \in alwaysBlocked
  \/ url.Domain \in alwaysBlocked

isURLAlwaysDirect(url) ==
  IF url.Domain = "" THEN TRUE
  ELSE url.Host \in alwaysDirect \/ url.Domain \in alwaysDirect

isURLAlwaysBlocked(url) ==
  IF url.Domain = "" THEN FALSE
  ELSE url.Host \in alwaysBlocked \/ url.Domain \in alwaysBlocked

\* lookupBlocked that does not consult the chou set
lookupBlocked_noChou(s) ==
  IF s \in alwaysDirect THEN FALSE
  ELSE IF s \in alwaysBlocked THEN TRUE
  ELSE s \in blocked

lookupBlocked(s) ==
  IF s \in alwaysDirect THEN FALSE
  ELSE IF s \in alwaysBlocked THEN TRUE
  ELSE IF TimeoutSetHas(s) THEN TRUE
  ELSE s \in blocked

\* isURLBlocked without the test of the empty domain
isURLBlocked_noEmptyTest(url) ==
  lookupBlocked(url.Host) \/ lookupBlocked(url.Domain)

isURLBlocked(url) ==
  IF url.Domain = "" THEN FALSE
  ELSE lookupBlocked(url.Host) \/ lookupBlocked(url.Domain)

\* lookupDirect answering "direct" for a name that no set holds
lookupDirect_defaultDirect(s) ==
  IF s \in alwaysDirect THEN TRUE
  ELSE IF s \in alwaysBlocked THEN FALSE
  ELSE s \in direct \/ s \notin blocked

lookupDirect(s) ==
  IF s \in alwaysDirect THEN TRUE
  ELSE IF s \in alwaysBlocked THEN FALSE
  ELSE s \in direct

isURLDirect(url) ==
  IF url.Domain = "" THEN TRUE
  ELSE lookupDirect(url.Host) \/ lookupDirect(url.Domain)

\* no storeDomainList call is being made
StoreIdle ==
  /\ spc = "idle"
  /\ tmpFile = NoFile
  /\ oldFile = NoFile
  /\ isWindows = FALSE
  /\ serr = FALSE

\* no goroutine has called the classifier
TasksIdle ==
  /\ pc = [t \in Tasks |-> "idle"]
  /\ top = [t \in Tasks |-> "none"]
  /\ turl = [t \in Tasks |-> NoURL]
  /\ tret = [t \in Tasks |-> FALSE]
  /\ ncalls = 0
  /\ wlock = [s \in {"blocked", "direct"} |-> 0]
  /\ winStart = [n \in AllNames |-> NoTime]

\* no goroutine is in store()
PersistIdle ==
  /\ ppc = "idle"
  /\ pset = "none"
  /\ plen = 0
  /\ pseen = {}
  /\ pinst = {}
  /\ pfix = {}

(***************************************************************************)
(* Construction and load                                                   *)
(***************************************************************************)

Init ==
  /\ phase = "new"
  /\ config \in [UpdateBlocked : BOOLEAN, UpdateDirect : BOOLEAN]
  /\ direct = {}
  /\ blocked = {}
  /\ blockedChanged = FALSE
  /\ directChanged = FALSE
  /\ alwaysBlocked = {}
  /\ alwaysDirect = {}
  /\ chouSet = NewTimeoutSet
  /\ now = 0
  /\ blockedFile \in LearnedFiles
  /\ directFile \in LearnedFiles
  /\ written = {}
  /\ lastOp = [op |-> "new", url |-> NoURL]
  /\ ret = FALSE
  /\ errl = {}
  /\ StoreIdle
  /\ TasksIdle
  /\ PersistIdle

\* filterOutDs on the state st = [blocked, direct, blockedChanged, directChanged]
filterOutDs(st, dmset) ==
  [blocked        |-> st.blocked \ dmset,
   direct         |-> st.direct \ dmset,
   blockedChanged |-> st.blockedChanged \/ (st.blocked \cap dmset # {}),
   directChanged  |-> st.directChanged \/ (st.direct \cap dmset # {})]

\* filterOutBlockedInDirect that keeps a name of both learned sets in the
\* direct set
filterOutBlockedInDirect_directWins(st) ==
  [st EXCEPT !.blocked = st.blocked \ st.direct,
             !.blockedChanged = st.blockedChanged \/ (st.direct \cap st.blocked # {})]

\* filterOutBlockedInDirect, the part on the learned sets
filterOutBlockedInDirect(st) ==
  [st EXCEPT !.direct = st.direct \ st.blocked,
             !.directChanged = st.directChanged \/ (st.direct \cap st.blocked # {})]

\* load, with the seed lists blockedDomainList (bl), directDomainList (dl) and
\* the always files as its inputs
load(bl, dl, abFile, adFile) ==
  /\ phase = "new"
  /\ LET st0 == [blocked        |-> bl \cup loadDomainList(blockedFile),
                 direct         |-> dl \cup loadDomainList(directFile),
                 blockedChanged |-> blockedChanged,
                 directChanged  |-> directChanged]
         ab  == loadDomainList(abFile)
         ad  == loadDomainList(adFile)
         st1 == filterOutDs(st0, ad)
         st2 == filterOutDs(st1, ab)
         st3 == filterOutBlockedInDirect(st2)
     IN  /\ alwaysBlocked' = ab
         /\ alwaysDirect' = ad \ ab
         /\ errl' = ab \cap ad
         /\ blocked' = st3.blocked
         /\ direct' = st3.direct
         /\ blockedChanged' = st3.blockedChanged
         /\ directChanged' = st3.directChanged
  /\ phase' = "loaded"
  /\ written' = {}
  /\ lastOp' = [op |-> "load", url |-> NoURL]
  /\ ret' = FALSE
  /\ UNCHANGED <<config, chouSet, now, blockedFile, directFile, auxVars>>

(***************************************************************************)
(* Learning                                                                *)
(***************************************************************************)

\* addChouURL without the test of a literal IP
addChouURL_noIPTest(url) ==
  IF isURLAlwaysDirect(url) \/ url.Domain = ""
  THEN /\ ret' = FALSE
       /\ UNCHANGED chouSet
  ELSE /\ chouSet' = IF ~TimeoutSetHas(url.Domain)
                     THEN TimeoutSetAdd(url.Domain)
                     ELSE chouSet
       /\ ret' = TRUE

addChouURL(url) ==
  IF isURLAlwaysDirect(url) \/ url.Domain = "" \/ url.IsIP
  THEN /\ ret' = FALSE
       /\ UNCHANGED chouSet
  ELSE /\ chouSet' = IF ~TimeoutSetHas(url.Domain)
                     THEN TimeoutSetAdd(url.Domain)
                     ELSE chouSet
       /\ ret' = TRUE

\* addBlockedURL that leaves the domain in the direct set
addBlockedURL_keepDirect(url) ==
  /\ phase = "loaded"
  /\ lastOp' = [op |-> "addBlockedURL", url |-> url]
  /\ written' = {}
  /\ errl' = {}
  /\ UNCHANGED auxVars
  /\ UNCHANGED <<phase, config, alwaysBlocked, alwaysDirect, now,
                 blockedFile, directFile>>
  /\ IF ~config.UpdateBlocked
     THEN /\ addChouURL(url)
          /\ UNCHANGED <<blocked, direct, blockedChanged, directChanged>>
     ELSE IF isURLAlwaysDirect(url) \/ url.Domain = "" \/ url.IsIP
     THEN /\ ret' = FALSE
          /\ UNCHANGED <<blocked, direct, blockedChanged, directChanged, chouSet>>
     ELSE IF url.Domain \in blocked
     THEN /\ ret' = TRUE
          /\ UNCHANGED <<blocked, direct, blockedChanged, directChanged, chouSet>>
     ELSE /\ blocked' = blocked \cup {url.Domain}
          /\ blockedChanged' = TRUE
          /\ UNCHANGED <<direct, directChanged>>
          /\ ret' = TRUE
          /\ UNCHANGED chouSet

\* addBlockedURL that deletes from the direct set without setting directChanged
addBlockedURL_noDirectFlag(url) ==
  /\ phase = "loaded"
  /\ lastOp' = [op |-> "addBlockedURL", url |-> url]
  /\ written' = {}
  /\ errl' = {}
  /\ UNCHANGED auxVars
  /\ UNCHANGED <<phase, config, alwaysBlocked, alwaysDirect, now,
                 blockedFile, directFile>>
  /\ IF ~config.UpdateBlocked
     THEN /\ addChouURL(url)
          /\ UNCHANGED <<blocked, direct, blockedChanged, directChanged>>
     ELSE IF isURLAlwaysDirect(url) \/ url.Domain = "" \/ url.IsIP
     THEN /\ ret' = FALSE
          /\ UNCHANGED <<blocked, direct, blockedChanged, directChanged, chouSet>>
     ELSE IF url.Domain \in blocked
     THEN /\ ret' = TRUE
          /\ UNCHANGED <<blocked, direct, blockedChanged, directChanged, chouSet>>
     ELSE /\ blocked' = blocked \cup {url.Domain}
          /\ blockedChanged' = TRUE
          /\ IF url.Domain \in direct
             THEN /\ direct' = direct \ {url.Domain}
                  /\ UNCHANGED directChanged
             ELSE UNCHANGED <<direct, directChanged>>
          /\ ret' = TRUE
          /\ UNCHANGED chouSet

\* addBlockedURL that reports false for a domain already in the blocked set
addBlockedURL_falseIfKnown(url) ==
  /\ phase = "loaded"
  /\ lastOp' = [op |-> "addBlockedURL", url |-> url]
  /\ written' = {}
  /\ errl' = {}
  /\ UNCHANGED auxVars
  /\ UNCHANGED <<phase, config, alwaysBlocked, alwaysDirect, now,
                 blockedFile, directFile>>
  /\ IF ~config.UpdateBlocked
     THEN /\ addChouURL(url)
          /\ UNCHANGED <<blocked, direct, blockedChanged, directChanged>>
     ELSE IF isURLAlwaysDirect(url) \/ url.Domain = "" \/ url.IsIP
     THEN /\ ret' = FALSE
          /\ UNCHANGED <<blocked, direct, blockedChanged, directChanged, chouSet>>
     ELSE IF url.Domain \in blocked
     THEN /\ ret' = FALSE
          /\ UNCHANGED <<blocked, direct, blockedChanged, directChanged, chouSet>>
     ELSE /\ blocked' = blocked \cup {url.Domain}
          /\ blockedChanged' = TRUE
          /\ IF url.Domain \in direct
             THEN /\ direct' = direct \ {url.Domain}
                  /\ directChanged' = TRUE
             ELSE UNCHANGED <<direct, directChanged>>
          /\ ret' = TRUE
          /\ UNCHANGED chouSet

addBlockedURL(url) ==
  /\ phase = "loaded"
  /\ lastOp' = [op |-> "addBlockedURL", url |-> url]
  /\ written' = {}
  /\ errl' = {}
  /\ UNCHANGED auxVars
  /\ UNCHANGED <<phase, config, alwaysBlocked, alwaysDirect, now,
                 blockedFile, directFile>>
  /\ IF ~config.UpdateBlocked
     THEN /\ addChouURL(url)
          /\ UNCHANGED <<blocked, direct, blockedChanged, directChanged>>
     ELSE IF isURLAlwaysDirect(url) \/ url.Domain = "" \/ url.IsIP
     THEN /\ ret' = FALSE
          /\ UNCHANGED <<blocked, direct, blockedChanged, directChanged, chouSet>>
     ELSE IF url.Domain \in blocked
     THEN /\ ret' = TRUE
          /\ UNCHANGED <<blocked, direct, blockedChanged, directChanged, chouSet>>
     ELSE /\ blocked' = blocked \cup {url.Domain}
          /\ blockedChanged' = TRUE
          /\ IF url.Domain \in direct
             THEN /\ direct' = direct \ {url.Domain}
                  /\ directChanged' = TRUE
             ELSE UNCHANGED <<direct, directChanged>>
          /\ ret' = TRUE
          /\ UNCHANGED chouSet

\* addDirectURL guarded by isURLAlwaysDirect instead of isURLInAlwaysDs
addDirectURL_alwaysDirectOnly(url) ==
  /\ phase = "loaded"
  /\ lastOp' = [op |-> "addDirectURL", url |-> url]
  /\ written' = {}
  /\ errl' = {}
  /\ UNCHANGED auxVars
  /\ UNCHANGED <<phase, config, alwaysBlocked, alwaysDirect, chouSet, now,
                 blockedFile, directFile>>
  /\ IF ~config.UpdateDirect
     THEN /\ ret' = FALSE
          /\ UNCHANGED <<blocked, direct, blockedChanged, directChanged>>
     ELSE IF \/ isURLAlwaysDirect(url)
             \/ url.Domain = ""
             \/ url.IsIP
             \/ url.Domain \in direct
     THEN /\ ret' = FALSE
          /\ UNCHANGED <<blocked, direct, blockedChanged, directChanged>>
     ELSE /\ direct' = direct \cup {url.Domain}
          /\ directChanged' = TRUE
          /\ IF url.Domain \in blocked
             THEN /\ blocked' = blocked \ {url.Domain}
                  /\ blockedChanged' = TRUE
             ELSE UNCHANGED <<blocked, blockedChanged>>
          /\ ret' = TRUE

addDirectURL(url) ==
  /\ phase = "loaded"
  /\ lastOp' = [op |-> "addDirectURL", url |-> url]
  /\ written' = {}
  /\ errl' = {}
  /\ UNCHANGED auxVars
  /\ UNCHANGED <<phase, config, alwaysBlocked, alwaysDirect, chouSet, now,
                 blockedFile, directFile>>
  /\ IF ~config.UpdateDirect
     THEN /\ ret' = FALSE
          /\ UNCHANGED <<blocked, direct, blockedChanged, directChanged>>
     ELSE IF \/ isURLInAlwaysDs(url)
             \/ url.Domain = ""
             \/ url.IsIP
             \/ url.Domain \in direct
     THEN /\ ret' = FALSE
          /\ UNCHANGED <<blocked, direct, blockedChanged, directChanged>>
     ELSE /\ direct' = direct \cup {url.Domain}
          /\ directChanged' = TRUE
          /\ IF url.Domain \in blocked
             THEN /\ blocked' = blocked \ {url.Domain}
                  /\ blockedChanged' = TRUE
             ELSE UNCHANGED <<blocked, blockedChanged>>
          /\ ret' = TRUE

(***************************************************************************)
(* Store                                                                   *)
(***************************************************************************)

\* storeBlockedDs: the blocked file after the call, and whether it was replaced
storeBlockedDs(fail, windows) ==
  IF ~config.UpdateBlocked \/ ~blockedChanged
  THEN [file |-> blockedFile, wrote |-> FALSE]
  ELSE [file  |-> storeDomainList(blockedFile, blocked, fail, windows),
        wrote |-> fail = "none"]

storeDirectDs(fail, windows) ==
  IF ~config.UpdateDirect \/ ~directChanged
  THEN [file |-> directFile, wrote |-> FALSE]
  ELSE [file  |-> storeDomainList(directFile, direct, fail, windows),
        wrote |-> fail = "none"]

store ==
  /\ phase = "loaded"
  /\ \E fb \in StoreFailures, fd \in StoreFailures, windows \in BOOLEAN :
       LET b == storeBlockedDs(fb, windows)
           d == storeDirectDs(fd, windows)
       IN  /\ blockedFile' = b.file
           /\ directFile' = d.file
           /\ written' = (IF b.wrote THEN {"blocked"} ELSE {})
                           \cup (IF d.wrote THEN {"direct"} ELSE {})
  /\ lastOp' = [op |-> "store", url |-> NoURL]
  /\ ret' = FALSE
  /\ errl' = {}
  /\ UNCHANGED auxVars
  /\ UNCHANGED <<phase, config, direct, blocked, blockedChanged, directChanged,
                 alwaysBlocked, alwaysDirect, chouSet, now>>

(***************************************************************************)
(* Time                                                                    *)
(***************************************************************************)

Tick ==
  /\ phase = "loaded"
  /\ now < MaxTime
  /\ now' = now + 1
  /\ written' = {}
  /\ lastOp' = [op |-> "tick", url |-> NoURL]
  /\ ret' = FALSE
  /\ errl' = {}
  /\ UNCHANGED auxVars
  /\ UNCHANGED <<phase, config, direct, blocked, blockedChanged, directChanged,
                 alwaysBlocked, alwaysDirect, chouSet, blockedFile, directFile>>

\* load on any seed lists and always files
loadAny ==
  /\ phase = "new"
  /\ \E bl \in SUBSET LearnedNames, dl \in SUBSET LearnedNames,
        abFile \in AlwaysFiles, adFile \in AlwaysFiles :
       load(bl, dl, abFile, adFile)

Next ==
  \/ loadAny
  \/ \E url \in URLs : addBlockedURL(url)
  \/ \E url \in URLs : addDirectURL(url)
  \/ store
  \/ Tick

Spec == Init /\ [][Next]_vars

TypeOK ==
  /\ phase \in {"new", "loaded"}
  /\ direct \subseteq AllNames
  /\ blocked \subseteq AllNames
  /\ alwaysBlocked \subseteq AlwaysNames
  /\ alwaysDirect \subseteq AlwaysNames
  /\ now \in 0..MaxTime

(***************************************************************************)
(* storeDomainList(dsFile.blocked, ds.blocked.toSlice()), statement by     *)
(* statement                                                               *)
(***************************************************************************)

\* what a step of storeDomainList leaves alone besides the files
storeFrame == <<phase, config, direct, blocked, blockedChanged, directChanged,
                alwaysBlocked, alwaysDirect, chouSet, now, directFile, written,
                lastOp, ret, errl, oldFile, isWindows, taskVars, persistVars>>

\* a loaded classifier that begins to store its blocked set
InitStore ==
  /\ phase = "loaded"
  /\ config = [UpdateBlocked |-> TRUE, UpdateDirect |-> TRUE]
  /\ direct = {}
  /\ blocked \in SUBSET LearnedNames
  /\ blockedChanged = TRUE
  /\ directChanged = FALSE
  /\ alwaysBlocked = {}
  /\ alwaysDirect = {}
  /\ chouSet = NewTimeoutSet
  /\ now = 0
  /\ blockedFile \in AlwaysFiles
  /\ directFile = NoFile
  /\ written = {}
  /\ lastOp = [op |-> "store", url |-> NoURL]
  /\ ret = FALSE
  /\ errl = {}
  /\ spc = "mkdir"
  /\ tmpFile = NoFile
  /\ oldFile = blockedFile
  /\ isWindows \in BOOLEAN
  /\ serr = FALSE
  /\ TasksIdle
  /\ PersistIdle

\* mkConfigDir()
StoreMkdir ==
  /\ spc = "mkdir"
  /\ \E ok \in BOOLEAN :
       IF ok THEN spc' = "create" /\ UNCHANGED serr
             ELSE spc' = "done" /\ serr' = TRUE
  /\ UNCHANGED <<blockedFile, tmpFile, storeFrame>>

\* os.Create(tmpPath)
StoreCreate ==
  /\ spc = "create"
  /\ \E ok \in BOOLEAN :
       IF ok THEN /\ tmpFile' = [exists |-> TRUE, lines |-> <<>>]
                  /\ spc' = "write"
                  /\ UNCHANGED serr
             ELSE /\ spc' = "done"
                  /\ serr' = TRUE
                  /\ UNCHANGED tmpFile
  /\ UNCHANGED <<blockedFile, storeFrame>>

\* sort, f.WriteString(all), f.Close(): the result of WriteString is not
\* looked at, so a short write goes on with the first k names in the file
StoreWrite ==
  /\ spc = "write"
  /\ \E k \in 0..Len(SortedList(blocked)) :
       tmpFile' = [exists |-> TRUE, lines |-> SubSeq(SortedList(blocked), 1, k)]
  /\ spc' = IF isWindows THEN "exists" ELSE "rename"
  /\ UNCHANGED <<blockedFile, serr, storeFrame>>

\* isFileExists(fpath), on Windows
StoreExists ==
  /\ spc = "exists"
  /\ \E ok \in BOOLEAN :
       IF ok THEN /\ spc' = IF blockedFile.exists THEN "remove" ELSE "rename"
                  /\ UNCHANGED serr
             ELSE /\ spc' = "done"
                  /\ serr' = TRUE
  /\ UNCHANGED <<blockedFile, tmpFile, storeFrame>>

\* os.Remove(fpath), on Windows: a failure is logged and the call goes on
StoreRemove ==
  /\ spc = "remove"
  /\ \E ok \in BOOLEAN :
       IF ok THEN blockedFile' = NoFile /\ UNCHANGED serr
             ELSE serr' = TRUE /\ UNCHANGED blockedFile
  /\ spc' = "rename"
  /\ UNCHANGED <<tmpFile, storeFrame>>

\* os.Rename(tmpPath, fpath); on Windows it fails if fpath exists
StoreRename ==
  /\ spc = "rename"
  /\ \E ok \in BOOLEAN :
       IF ok /\ ~(isWindows /\ blockedFile.exists)
       THEN /\ blockedFile' = tmpFile
            /\ tmpFile' = NoFile
            /\ serr' = FALSE
       ELSE /\ serr' = TRUE
            /\ UNCHANGED <<blockedFile, tmpFile>>
  /\ spc' = "done"
  /\ UNCHANGED storeFrame

NextStore ==
  \/ StoreMkdir
  \/ StoreCreate
  \/ StoreWrite
  \/ StoreExists
  \/ StoreRemove
  \/ StoreRename

SpecStore == InitStore /\ [][NextStore]_vars

(***************************************************************************)
(* addBlockedURL and addDirectURL called by several goroutines, statement  *)
(* by statement.  has, add and del of paraDmSet hold the set's lock for    *)
(* the one map operation; the flags are written outside every lock.        *)
(***************************************************************************)

ConcNames == { u.Domain : u \in ConcURLs }

\* the frame of a statement of addBlockedURL / addDirectURL
seqFrame == <<phase, config, alwaysBlocked, alwaysDirect, now, blockedFile,
              directFile, written, lastOp, ret, errl, storeVars>>

\* the state once load has run and the handlers start; the learned files hold
\* what load read
InitConc(ub) ==
  /\ phase = "loaded"
  /\ config = [UpdateBlocked |-> ub, UpdateDirect |-> TRUE]
  /\ alwaysBlocked = {}
  /\ alwaysDirect = {}
  /\ blocked \in SUBSET ConcNames
  /\ direct \in SUBSET (ConcNames \ blocked)
  /\ blockedChanged = FALSE
  /\ directChanged = FALSE
  /\ chouSet = NewTimeoutSet
  /\ now = 0
  /\ blockedFile = FileOf(blocked)
  /\ directFile = FileOf(direct)
  /\ written = {}
  /\ lastOp = [op |-> "load", url |-> NoURL]
  /\ ret = FALSE
  /\ errl = {}
  /\ StoreIdle
  /\ TasksIdle
  /\ PersistIdle

\* the next statement of goroutine t is the one labelled l
Goto(t, l) ==
  /\ pc' = [pc EXCEPT ![t] = l]
  /\ UNCHANGED tret

\* goroutine t returns v from its call
Return(t, v) ==
  /\ pc' = [pc EXCEPT ![t] = "idle"]
  /\ tret' = [tret EXCEPT ![t] = v]

\* the set a toSlice call reads
SetOf(s) == IF s = "blocked" THEN blocked ELSE direct

\* a write to set s, as a toSlice call in progress on s meets it
Observe(s, new) ==
  pinst' = IF ppc = "range" /\ pset = s THEN pinst \cup {new} ELSE pinst

\* addBlockedURL up to its first access of a shared set
addBlockedURL_call(t, url) ==
  /\ phase = "loaded"
  /\ ppc # "panic"
  /\ pc[t] = "idle"
  /\ ncalls < MaxCalls
  /\ ncalls' = ncalls + 1
  /\ top' = [top EXCEPT ![t] = "addBlockedURL"]
  /\ turl' = [turl EXCEPT ![t] = url]
  /\ pfix' = pfix \ {url.Domain}
  /\ IF isURLAlwaysDirect(url) \/ url.Domain = "" \/ url.IsIP
       THEN Return(t, FALSE)
       ELSE Goto(t, IF config.UpdateBlocked THEN "b_has" ELSE "chou_has")
  /\ UNCHANGED <<seqFrame, direct, blocked, blockedChanged, directChanged,
                 chouSet, wlock, winStart, ppc, pset, plen, pseen, pinst>>

\* addChouURL: if !ds.chouSet.has(url.Domain)
addChouURL_has(t) ==
  /\ pc[t] = "chou_has"
  /\ ppc # "panic"
  /\ IF TimeoutSetHas(turl[t].Domain)
       THEN Return(t, TRUE)
       ELSE Goto(t, "chou_add")
  /\ UNCHANGED <<seqFrame, direct, blocked, blockedChanged, directChanged,
                 chouSet, top, turl, ncalls, wlock, winStart, persistVars>>

\* addChouURL: ds.chouSet.add(url.Domain); return true
addChouURL_add(t) ==
  /\ pc[t] = "chou_add"
  /\ ppc # "panic"
  /\ chouSet' = TimeoutSetAdd(turl[t].Domain)
  /\ winStart' = IF TimeoutSetHas(turl[t].Domain)
                   THEN winStart
                   ELSE [winStart EXCEPT ![turl[t].Domain] = now]
  /\ Return(t, TRUE)
  /\ UNCHANGED <<seqFrame, direct, blocked, blockedChanged, directChanged,
                 top, turl, ncalls, wlock, persistVars>>

\* addBlockedURL: if ds.blocked.has(url.Domain) { return true }
addBlockedURL_has(t) ==
  /\ pc[t] = "b_has"
  /\ ppc # "panic"
  /\ wlock["blocked"] = 0
  /\ IF turl[t].Domain \in blocked
       THEN Return(t, TRUE)
       ELSE Goto(t, "b_lock")
  /\ UNCHANGED <<seqFrame, direct, blocked, blockedChanged, directChanged,
                 chouSet, top, turl, ncalls, wlock, winStart, persistVars>>

\* the set whose lock the statement labelled l takes
LockSet(l) == IF l \in {"b_lock", "d_block"} THEN "blocked" ELSE "direct"

\* the statement that follows the Lock() labelled l
LockNext(l) ==
  CASE l = "b_lock"  -> "b_add"
    [] l = "b_dlock" -> "b_del"
    [] l = "d_lock"  -> "d_add"
    [] l = "d_block" -> "d_del"

\* paraDmSet.add / paraDmSet.del: pds.Lock()
paraDmSet_Lock(t) ==
  /\ pc[t] \in {"b_lock", "b_dlock", "d_lock", "d_block"}
  /\ ppc # "panic"
  /\ wlock[LockSet(pc[t])] = 0
  /\ wlock' = [wlock EXCEPT ![LockSet(pc[t])] = t]
  /\ Goto(t, LockNext(pc[t]))
  /\ UNCHANGED <<seqFrame, direct, blocked, blockedChanged, directChanged,
                 chouSet, top, turl, ncalls, winStart, persistVars>>

\* ds.blocked.add(url.Domain): the map write and pds.Unlock()
addBlockedURL_add(t) ==
  /\ pc[t] = "b_add"
  /\ ppc # "panic"
  /\ blocked' = blocked \cup {turl[t].Domain}
  /\ wlock' = [wlock EXCEPT !["blocked"] = 0]
  /\ Observe("blocked", blocked')
  /\ Goto(t, "b_flag")
  /\ UNCHANGED <<seqFrame, direct, blockedChanged, directChanged, chouSet,
                 top, turl, ncalls, winStart, ppc, pset, plen, pseen, pfix>>

\* addBlockedURL: ds.blockedChanged = true
addBlockedURL_flag(t) ==
  /\ pc[t] = "b_flag"
  /\ ppc # "panic"
  /\ blockedChanged' = TRUE
  /\ Goto(t, "b_dhas")
  /\ UNCHANGED <<seqFrame, direct, blocked, directChanged, chouSet,
                 top, turl, ncalls, wlock, winStart, persistVars>>

\* addBlockedURL: the test skipped, the domain is left in direct
addBlockedURL_directHas_never(t) ==
  /\ pc[t] = "b_dhas"
  /\ ppc # "panic"
  /\ wlock["direct"] = 0
  /\ Return(t, TRUE)
  /\ UNCHANGED <<seqFrame, direct, blocked, blockedChanged, directChanged,
                 chouSet, top, turl, ncalls, wlock, winStart, persistVars>>

\* addBlockedURL: if ds.direct.has(url.Domain)
addBlockedURL_directHas(t) ==
  /\ pc[t] = "b_dhas"
  /\ ppc # "panic"
  /\ wlock["direct"] = 0
  /\ IF turl[t].Domain \in direct
       THEN Goto(t, "b_dlock")
       ELSE Return(t, TRUE)
  /\ UNCHANGED <<seqFrame, direct, blocked, blockedChanged, directChanged,
                 chouSet, top, turl, ncalls, wlock, winStart, persistVars>>

\* ds.direct.del(url.Domain): the map write and pds.Unlock()
addBlockedURL_del(t) ==
  /\ pc[t] = "b_del"
  /\ ppc # "panic"
  /\ direct' = direct \ {turl[t].Domain}
  /\ wlock' = [wlock EXCEPT !["direct"] = 0]
  /\ Observe("direct", direct')
  /\ Goto(t, "b_dflag")
  /\ UNCHANGED <<seqFrame, blocked, blockedChanged, directChanged, chouSet,
                 top, turl, ncalls, winStart, ppc, pset, plen, pseen, pfix>>

\* addBlockedURL: ds.directChanged = true; return true
addBlockedURL_directFlag(t) ==
  /\ pc[t] = "b_dflag"
  /\ ppc # "panic"
  /\ directChanged' = TRUE
  /\ Return(t, TRUE)
  /\ UNCHANGED <<seqFrame, direct, blocked, blockedChanged, chouSet,
                 top, turl, ncalls, wlock, winStart, persistVars>>

\* addDirectURL up to and including ds.direct.has(url.Domain) of its guard
addDirectURL_call(t, url) ==
  /\ phase = "loaded"
  /\ ppc # "panic"
  /\ pc[t] = "idle"
  /\ ncalls < MaxCalls
  /\ LET early == \/ ~config.UpdateDirect
                  \/ isURLInAlwaysDs(url)
                  \/ url.Domain = ""
                  \/ url.IsIP
     IN  /\ early \/ wlock["direct"] = 0
         /\ IF early \/ url.Domain \in direct
              THEN Return(t, FALSE)
              ELSE Goto(t, "d_lock")
  /\ ncalls' = ncalls + 1
  /\ top' = [top EXCEPT ![t] = "addDirectURL"]
  /\ turl' = [turl EXCEPT ![t] = url]
  /\ pfix' = pfix \ {url.Domain}
  /\ UNCHANGED <<seqFrame, direct, blocked, blockedChanged, directChanged,
                 chouSet, wlock, winStart, ppc, pset, plen, pseen, pinst>>

\* ds.direct.add(url.Domain): the map write and pds.Unlock()
addDirectURL_add(t) ==
  /\ pc[t] = "d_add"
  /\ ppc # "panic"
  /\ direct' = direct \cup {turl[t].Domain}
  /\ wlock' = [wlock EXCEPT !["direct"] = 0]
  /\ Observe("direct", direct')
  /\ Goto(t, "d_flag")
  /\ UNCHANGED <<seqFrame, blocked, blockedChanged, directChanged, chouSet,
                 top, turl, ncalls, winStart, ppc, pset, plen, pseen, pfix>>

\* addDirectURL: ds.directChanged = true
addDirectURL_flag(t) ==
  /\ pc[t] = "d_flag"
  /\ ppc # "panic"
  /\ directChanged' = TRUE
  /\ Goto(t, "d_bhas")
  /\ UNCHANGED <<seqFrame, direct, blocked, blockedChanged, chouSet,
                 top, turl, ncalls, wlock, winStart, persistVars>>

\* addDirectURL: if ds.blocked.has(url.Domain)
addDirectURL_blockedHas(t) ==
  /\ pc[t] = "d_bhas"
  /\ ppc # "panic"
  /\ wlock["blocked"] = 0
  /\ IF turl[t].Domain \in blocked
       THEN Goto(t, "d_block")
       ELSE Return(t, TRUE)
  /\ UNCHANGED <<seqFrame, direct, blocked, blockedChanged, directChanged,
                 chouSet, top, turl, ncalls, wlock, winStart, persistVars>>

\* ds.blocked.del(url.Domain): the map write and pds.Unlock()
addDirectURL_del(t) ==
  /\ pc[t] = "d_del"
  /\ ppc # "panic"
  /\ blocked' = blocked \ {turl[t].Domain}
  /\ wlock' = [wlock EXCEPT !["blocked"] = 0]
  /\ Observe("blocked", blocked')
  /\ Goto(t, "d_bflag")
  /\ UNCHANGED <<seqFrame, direct, blockedChanged, directChanged, chouSet,
                 top, turl, ncalls, winStart, ppc, pset, plen, pseen, pfix>>

\* addDirectURL: ds.blockedChanged = true; return true
addDirectURL_blockedFlag(t) ==
  /\ pc[t] = "d_bflag"
  /\ ppc # "panic"
  /\ blockedChanged' = TRUE
  /\ Return(t, TRUE)
  /\ UNCHANGED <<seqFrame, direct, blocked, directChanged, chouSet,
                 top, turl, ncalls, wlock, winStart, persistVars>>

\* the statements of addBlockedURL past its call, persistence enabled
addBlockedURL_step(t) ==
  \/ addBlockedURL_has(t)
  \/ addBlockedURL_add(t)
  \/ addBlockedURL_flag(t)
  \/ addBlockedURL_directHas(t)
  \/ addBlockedURL_del(t)
  \/ addBlockedURL_directFlag(t)

\* the statements of addDirectURL past its call
addDirectURL_step(t) ==
  \/ addDirectURL_add(t)
  \/ addDirectURL_flag(t)
  \/ addDirectURL_blockedHas(t)
  \/ addDirectURL_del(t)
  \/ addDirectURL_blockedFlag(t)

\* goroutines that classify while none stores
NextRace ==
  \/ \E t \in Tasks, url \in ConcURLs : addBlockedURL_call(t, url)
  \/ \E t \in Tasks, url \in ConcURLs : addDirectURL_call(t, url)
  \/ \E t \in Tasks : paraDmSet_Lock(t)
  \/ \E t \in Tasks : addBlockedURL_step(t)
  \/ \E t \in Tasks : addDirectURL_step(t)

SpecRace == InitConc(TRUE) /\ [][NextRace]_vars

\* goroutines that report blocked domains with config.UpdateBlocked off, as
\* time passes
NextChou ==
  \/ \E t \in Tasks, url \in ConcURLs : addBlockedURL_call(t, url)
  \/ \E t \in Tasks : addChouURL_has(t)
  \/ \E t \in Tasks : addChouURL_add(t)
  \/ Tick

SpecChou == InitConc(FALSE) /\ [][NextChou]_vars

(***************************************************************************)
(* store() run by one goroutine while others classify.  dmSet.toSlice is   *)
(* called on the embedded map and takes no lock: it reads len(ds), makes   *)
(* lst of that length and ranges over the map while add and del may write. *)
(***************************************************************************)

\* the frame of a statement of store()
persistFrame == <<phase, config, direct, blocked, blockedChanged,
                  directChanged, alwaysBlocked, alwaysDirect, chouSet, now,
                  written, lastOp, ret, errl, storeVars, taskVars>>

\* store() is called, once
store_call ==
  /\ phase = "loaded"
  /\ ppc = "idle"
  /\ ppc' = "b_test"
  /\ pfix' = ConcNames \ { turl[t].Domain : t \in { u \in Tasks : pc[u] # "idle" } }
  /\ UNCHANGED <<persistFrame, blockedFile, directFile, pset, plen, pseen, pinst>>

\* storeBlockedDs / storeDirectDs: if !config.Update... || !ds....Changed
store_test ==
  /\ ppc \in {"b_test", "d_test"}
  /\ LET s  == IF ppc = "b_test" THEN "blocked" ELSE "direct"
         on == IF ppc = "b_test"
                 THEN config.UpdateBlocked /\ blockedChanged
                 ELSE config.UpdateDirect /\ directChanged
     IN  IF on
           THEN ppc' = "len" /\ pset' = s
           ELSE /\ ppc' = (IF ppc = "b_test" THEN "d_test" ELSE "done")
                /\ UNCHANGED pset
  /\ UNCHANGED <<persistFrame, blockedFile, directFile, plen, pseen, pinst, pfix>>

\* toSlice: l := len(ds); lst := make([]string, l); i := 0
toSlice_len ==
  /\ ppc = "len"
  /\ plen' = Cardinality(SetOf(pset))
  /\ pseen' = {}
  /\ pinst' = {SetOf(pset)}
  /\ ppc' = "range"
  /\ UNCHANGED <<persistFrame, blockedFile, directFile, pset, pfix>>

\* toSlice: one round of for k := range ds { lst[i] = k; i++ }; the index
\* is out of range when the map has grown past l
toSlice_range ==
  /\ ppc = "range"
  /\ \E k \in SetOf(pset) \ pseen :
       IF Cardinality(pseen) >= plen
         THEN ppc' = "panic" /\ UNCHANGED pseen
         ELSE pseen' = pseen \cup {k} /\ UNCHANGED ppc
  /\ UNCHANGED <<persistFrame, blockedFile, directFile, pset, plen, pinst, pfix>>

\* toSlice: the range loop ends and lst is returned; a key that was absent
\* at some moment of the loop may have been passed over
toSlice_return ==
  /\ ppc = "range"
  /\ \A k \in SetOf(pset) \ pseen : \E S \in pinst : k \notin S
  /\ ppc' = "write"
  /\ UNCHANGED <<persistFrame, blockedFile, directFile, pset, plen, pseen, pinst, pfix>>

\* the list toSlice returned: the keys it stored and "" in the rest of lst
toSliceList ==
  [i \in 1..(plen - Cardinality(pseen)) |-> ""] \o SortedList(pseen)

\* storeDomainList(fpath, lst) without an I/O failure
store_write ==
  /\ ppc = "write"
  /\ LET f == [exists |-> TRUE, lines |-> toSliceList]
     IN  IF pset = "blocked"
           THEN blockedFile' = f /\ UNCHANGED directFile
           ELSE directFile' = f /\ UNCHANGED blockedFile
  /\ ppc' = (IF pset = "blocked" THEN "d_test" ELSE "done")
  /\ UNCHANGED <<persistFrame, pset, plen, pseen, pinst, pfix>>

NextPersist ==
  \/ NextRace
  \/ store_call
  \/ store_test
  \/ toSlice_len
  \/ toSlice_range
  \/ toSlice_return
  \/ store_write

\* a first run: the learned sets are empty when the handlers start
InitPersist ==
  /\ InitConc(TRUE)
  /\ blocked = {}
  /\ direct = {}

SpecPersist == InitPersist /\ [][NextPersist]_vars

(***************************************************************************)
(* Properties                                                              *)
(***************************************************************************)

\* the target is stopped by the guard of addBlockedURL / addChouURL
Guarded(url) ==
  \/ url.Host \in alwaysDirect
  \/ url.Domain \in alwaysDirect
  \/ url.Domain = ""
  \/ url.IsIP

\* neither the host nor the domain of the target is in one of the five sets
InNoSet(url) ==
  \A s \in {url.Host, url.Domain} :
    /\ s \notin alwaysDirect \cup alwaysBlocked \cup direct \cup blocked
    /\ ~TimeoutSetHas(s)

\* C1: after load, whatever addBlockedURL and addDirectURL calls are made, no
\* domain is in the learned blocked set and in the learned direct set at once.
C1_MutualExclusion ==
  phase = "loaded" => blocked \cap direct = {}

\* a domain the blocked file held was moved to the direct set by addDirectURL
C1_Witness ==
  /\ lastOp.op = "addDirectURL"
  /\ ret
  /\ blockedChanged
  /\ lastOp.url.Domain \in Range(blockedFile.lines)
  /\ lastOp.url.Domain \in direct
  /\ lastOp.url.Domain \notin blocked

\* C2: a target whose host or domain is in the always-direct set is direct and
\* not blocked, whatever the other sets hold.
C2_AlwaysDirectPrecedence ==
  phase = "loaded" =>
    \A url \in URLs :
      (url.Host \in alwaysDirect \/ url.Domain \in alwaysDirect)
        => (isURLDirect(url) /\ ~isURLBlocked(url))

\* C3: after load, no name of an always set is in a learned set.
C3_AlwaysNotLearned ==
  phase = "loaded" =>
    (alwaysBlocked \cup alwaysDirect) \cap (blocked \cup direct) = {}

\* C4: after a store without I/O failure the dirty flag of every learned set
\* that was written is clear.
C4_StoreClearsFlags ==
  (phase = "loaded" /\ lastOp.op = "store") =>
    /\ "blocked" \in written => ~blockedChanged
    /\ "direct" \in written => ~directChanged

\* C5 as stated: a target with a domain, in none of the five sets, is direct
\* for isURLDirect and not blocked for isURLBlocked.
C5_DefaultDirect ==
  phase = "loaded" =>
    \A url \in URLs :
      (url.Domain # "" /\ InNoSet(url))
        => (isURLDirect(url) /\ ~isURLBlocked(url))

\* C5 amended: a target with a domain, in none of the five sets, is neither
\* direct for isURLDirect nor blocked for isURLBlocked.
C5_DefaultUnknown ==
  phase = "loaded" =>
    \A url \in URLs :
      (url.Domain # "" /\ InNoSet(url))
        => (~isURLDirect(url) /\ ~isURLBlocked(url))

\* a target in no set whose domain was in the chou set until it expired
C5_Witness ==
  /\ phase = "loaded"
  /\ \E url \in URLs :
       /\ url.Domain # ""
       /\ InNoSet(url)
       /\ chouSet[url.Domain] # NoTime
       /\ ~isURLDirect(url)
       /\ ~isURLBlocked(url)

\* C6 as stated: for a target with the empty domain isURLDirect and
\* isURLAlwaysDirect are true, isURLBlocked, isURLAlwaysBlocked and
\* isURLInAlwaysDs are false.
C6_EmptyDomainNotInAlwaysDs ==
  \A url \in URLs :
    url.Domain = "" =>
      /\ isURLDirect(url)
      /\ isURLAlwaysDirect(url)
      /\ ~isURLBlocked(url)
      /\ ~isURLAlwaysBlocked(url)
      /\ ~isURLInAlwaysDs(url)

\* C6 amended: for a target with the empty domain isURLDirect,
\* isURLAlwaysDirect and isURLInAlwaysDs are true, isURLBlocked and
\* isURLAlwaysBlocked are false.
C6_EmptyDomain ==
  \A url \in URLs :
    url.Domain = "" =>
      /\ isURLDirect(url)
      /\ isURLAlwaysDirect(url)
      /\ ~isURLBlocked(url)
      /\ ~isURLAlwaysBlocked(url)
      /\ isURLInAlwaysDs(url)

\* a bare host name that the always-blocked set holds
C6_Witness ==
  /\ phase = "loaded"
  /\ \E url \in URLs :
       /\ url.Domain = ""
       /\ url.Host \in alwaysBlocked
       /\ isURLDirect(url)
       /\ ~isURLBlocked(url)

\* C7: a target with a domain, with neither host nor domain in the
\* always-direct set and with host or domain in the always-blocked set, is
\* blocked and not direct.
C7_AlwaysBlockedPrecedence ==
  phase = "loaded" =>
    \A url \in URLs :
      ( /\ url.Domain # ""
        /\ url.Host \notin alwaysDirect
        /\ url.Domain \notin alwaysDirect
        /\ (url.Host \in alwaysBlocked \/ url.Domain \in alwaysBlocked) )
        => (isURLBlocked(url) /\ ~isURLDirect(url))

\* C8: with both learned sets persisted, addBlockedURL on a target that passes
\* the guard and whose domain is not in the blocked set inserts the domain,
\* sets blockedChanged, returns true and, if the domain was in the direct set,
\* deletes it there and sets directChanged (and otherwise leaves the direct set
\* and its flag alone); after a recording addDirectURL on the same target the
\* domain ends in the blocked set only, with both flags set.
C8_RecordBlocked ==
  [][\A url \in URLs :
       ( /\ addBlockedURL(url)
         /\ config.UpdateBlocked
         /\ config.UpdateDirect
         /\ ~Guarded(url)
         /\ url.Domain \notin blocked )
       => /\ blocked' = blocked \cup {url.Domain}
          /\ blockedChanged'
          /\ ret'
          /\ IF url.Domain \in direct
             THEN direct' = direct \ {url.Domain} /\ directChanged'
             ELSE UNCHANGED <<direct, directChanged>>
          /\ (lastOp = [op |-> "addDirectURL", url |-> url] /\ ret)
               => /\ url.Domain \in blocked'
                  /\ url.Domain \notin direct'
                  /\ blockedChanged'
                  /\ directChanged'
    ]_vars

\* addBlockedURL moved a domain of the direct file to the blocked set
C8_Witness ==
  /\ lastOp.op = "addBlockedURL"
  /\ ret
  /\ config.UpdateBlocked
  /\ config.UpdateDirect
  /\ lastOp.url.Domain \in Range(directFile.lines)
  /\ lastOp.url.Domain \in blocked
  /\ lastOp.url.Domain \notin direct
  /\ blockedChanged
  /\ directChanged

\* C9: an addBlockedURL call that directly follows an addBlockedURL call on
\* the same target changes none of the five sets and neither dirty flag, and
\* returns what the first call returned.
C9_RecordBlockedIdempotent ==
  [][\A url \in URLs :
       (lastOp = [op |-> "addBlockedURL", url |-> url] /\ addBlockedURL(url))
         => (UNCHANGED dsVars /\ ret' = ret)
    ]_vars

\* addBlockedURL was called on a domain that an earlier call had put into the
\* chou set and that is still live
C9_Witness ==
  /\ lastOp.op = "addBlockedURL"
  /\ ret
  /\ ~config.UpdateBlocked
  /\ TimeoutSetHas(lastOp.url.Domain)
  /\ chouSet[lastOp.url.Domain] < now

\* C10: addBlockedURL on a target that is always direct, has the empty domain
\* or is a literal IP returns false and changes none of the five sets and
\* neither dirty flag, with UpdateBlocked set or not.
C10_RecordBlockedGuard ==
  [][\A url \in URLs :
       (addBlockedURL(url) /\ Guarded(url))
         => (ret' = FALSE /\ UNCHANGED dsVars)
    ]_vars

\* addBlockedURL refused a literal IP on the transient path
C10_Witness ==
  /\ lastOp.op = "addBlockedURL"
  /\ ~ret
  /\ lastOp.url.IsIP
  /\ ~config.UpdateBlocked

C13_RecordDirect ==
  [][\A url \in URLs :
       addDirectURL(url) =>
         IF \/ ~config.UpdateDirect
            \/ url.Host \in alwaysDirect \cup alwaysBlocked
            \/ url.Domain \in alwaysDirect \cup alwaysBlocked
            \/ url.Domain = ""
            \/ url.IsIP
            \/ url.Domain \in direct
         THEN ret' = FALSE /\ UNCHANGED dsVars
         ELSE /\ direct' = direct \cup {url.Domain}
              /\ directChanged'
              /\ IF url.Domain \in blocked
                 THEN blocked' = blocked \ {url.Domain} /\ blockedChanged'
                 ELSE UNCHANGED <<blocked, blockedChanged>>
              /\ ret' = TRUE
              /\ UNCHANGED <<alwaysBlocked, alwaysDirect, chouSet>>
    ]_vars

\* addDirectURL refused a target only because an always-blocked name covers it
C13_Witness ==
  /\ lastOp.op = "addDirectURL"
  /\ ~ret
  /\ config.UpdateDirect
  /\ lastOp.url.Host \in alwaysBlocked \/ lastOp.url.Domain \in alwaysBlocked
  /\ lastOp.url.Host \notin alwaysDirect
  /\ lastOp.url.Domain \notin alwaysDirect \cup direct \cup {""}
  /\ ~lastOp.url.IsIP

\* C14: whatever the seed lists and the files hold, after load the learned
\* sets hold no name of an always set, the learned sets are disjoint and a name
\* of both is kept in the blocked set only, the always sets are disjoint and a
\* name of both is kept in the always-blocked set only and is logged.
C14_Load ==
  [][phase = "new" =>
       \A bl \in SUBSET LearnedNames, dl \in SUBSET LearnedNames,
          abFile \in AlwaysFiles, adFile \in AlwaysFiles :
         load(bl, dl, abFile, adFile) =>
           LET ab == loadDomainList(abFile)
               ad == loadDomainList(adFile)
               b0 == bl \cup loadDomainList(blockedFile)
               d0 == dl \cup loadDomainList(directFile)
           IN  /\ (blocked' \cup direct') \cap (alwaysBlocked' \cup alwaysDirect') = {}
               /\ blocked' \cap direct' = {}
               /\ alwaysBlocked' \cap alwaysDirect' = {}
               /\ blocked' = b0 \ (ab \cup ad)
               /\ direct' = d0 \ (ab \cup ad \cup b0)
               /\ alwaysBlocked' = ab
               /\ alwaysDirect' = ad \ ab
               /\ errl' = ab \cap ad
    ]_vars

\* load dropped a name of both always lists from the always-direct set and a
\* name of the direct file from the direct set
C14_Witness ==
  /\ lastOp.op = "load"
  /\ errl # {}
  /\ errl \subseteq alwaysBlocked
  /\ alwaysDirect # {}
  /\ blocked # {}
  /\ \E n \in Range(directFile.lines) : n \in blocked /\ n \notin direct
  /\ directChanged

\* C19: after load, whatever addBlockedURL and addDirectURL calls are made
\* under whatever configuration, no target has isURLDirect and isURLBlocked both
\* true.
C19_Unambiguous ==
  phase = "loaded" =>
    \A url \in URLs : ~(isURLDirect(url) /\ isURLBlocked(url))

\* C15: during and after a storeDomainList call, failed or interrupted at any
\* statement or not, the file fpath holds its whole previous content or the
\* whole new sorted list, and after a failed call it holds its previous content.
C15_AtomicStore ==
  /\ blockedFile \in {oldFile, FileOf(blocked)}
  /\ (spc = "done" /\ serr) => blockedFile = oldFile

\* no goroutine is inside addBlockedURL or addDirectURL
Quiescent == \A t \in Tasks : pc[t] = "idle"

\* the last calls of t1 and t2 were addBlockedURL and addDirectURL of one
\* domain and both returned true
BothRecorded(t1, t2) ==
  /\ top[t1] = "addBlockedURL" /\ tret[t1]
  /\ top[t2] = "addDirectURL" /\ tret[t2]
  /\ turl[t1].Domain = turl[t2].Domain

\* C17: whenever no addBlockedURL / addDirectURL call is in progress, no
\* domain is in both the learned blocked set and the learned direct set;
\* a domain is seen in both only while some call is between its statements.
C17_QuiescentExclusive ==
  Quiescent => blocked \cap direct = {}

\* C17: calls that reported one domain blocked and direct have overlapped,
\* both have returned, and no call is in progress
C17_Witness ==
  /\ Quiescent
  /\ \E t1 \in Tasks, t2 \in Tasks :
       /\ BothRecorded(t1, t2)
       /\ turl[t1].Domain \notin blocked \cup direct

\* C18: when addBlockedURL(u) and addDirectURL(u) both returned true, then
\* once no call is in progress u's domain is in exactly one of the learned
\* blocked set and the learned direct set.
C18_NoLostClassification ==
  \A t1 \in Tasks, t2 \in Tasks :
    (Quiescent /\ BothRecorded(t1, t2))
      => ((turl[t1].Domain \in blocked) # (turl[t1].Domain \in direct))

C16_SnapshotLocked ==
  /\ ppc = "range" => wlock[pset] = 0
  /\ ppc = "write" => (Cardinality(pseen) = plen /\ pseen \in pinst)

\* C20: when store() has run, each learned file agrees with its set on every
\* name that no addBlockedURL / addDirectURL call has worked on since store()
\* was called, so the changes of the calls that returned before are stored.
C20_NoLostChange ==
  ppc \in {"done", "panic"} =>
    \A n \in pfix :
      /\ (n \in loadDomainList(blockedFile)) = (n \in blocked)
      /\ (n \in loadDomainList(directFile)) = (n \in direct)

====
